---- MODULE Spec2Model ----
(***************************************************************************)
(* Model of crossref_api_client.py: the command-line front end, the three  *)
(* service adapters (crossref_search, crossref_get, openlib_get) and the   *)
(* retry executor _request_with_retries.                                   *)
(*                                                                         *)
(* Text is modelled as a sequence of pieces (strings); concatenation is    *)
(* \o and the Python `in` substring test is containment of a contiguous    *)
(* run of pieces.  A JSON object is a function from keys to values.        *)
(* One run of the model is one invocation of the program.                  *)
(***************************************************************************)
EXTENDS Integers, Sequences, FiniteSets, TLC

VARIABLES
    pc,        \* position of the (single) thread of control
    environ,   \* CROSSREF_MAIL: <<>> when unset, <<value>> when set
    args,      \* the argparse namespace built by main
    req,       \* keyword arguments of the running _request_with_retries call
    attempt,   \* loop variable of `for attempt in range(retries)`
    events,    \* history: every request issued, outcome observed and sleep
    resp,      \* <<r>> once _request_with_retries returned r, else <<>>
    exc,       \* <<e>> once _request_with_retries raised e, else <<>>
    final      \* <<f>> once the process has ended, else <<>>

vars == <<pc, environ, args, req, attempt, events, resp, exc, final>>

---------------------------------------------------------------------------
(* Bounds of the model *)

\* largest value given to --retries (the smallest is -1)
MaxRetries == 4
\* largest value given to --timeout besides the default (the smallest is -1)
MaxTimeout == 1

---------------------------------------------------------------------------
(* Configuration, lines 48-62 *)

APP_NAME == "CiteGuard"
APP_VERSION == "0.5"
DEFAULT_EMAIL == "anonymous@example.com"
CROSSREF_BASE_URL == "https://api.crossref.org"
OPENLIB_BASE_URL == "https://openlibrary.org/api/books"
DEFAULT_TIMEOUT == 30
DEFAULT_RETRIES == 3
BACKOFF_FACTOR == 1
DEFAULT_ROWS == 20

\* os.getenv("CROSSREF_MAIL", DEFAULT_EMAIL)
EMAIL(env) == IF env = <<>> THEN DEFAULT_EMAIL ELSE env[1]

\* f"{APP_NAME}/{APP_VERSION} (mailto:{EMAIL})"
USER_AGENT(env) == <<APP_NAME, "/", APP_VERSION, " (mailto:", EMAIL(env), ")">>

HEADERS(env) ==
    ("User-Agent" :> USER_AGENT(env)) @@ ("Accept" :> <<"application/json">>)

---------------------------------------------------------------------------
(* Text helpers *)

\* Python: needle in hay
Contains(hay, needle) ==
    \E i \in 0..(Len(hay) - Len(needle)) :
        \A j \in 1..Len(needle) : hay[i + j] = needle[j]

\* Python: str(n)
Str(n) == ToString(n)

RECURSIVE Pow2(_)
Pow2(n) == IF n <= 0 THEN 1 ELSE 2 * Pow2(n - 1)

\* Python: s.replace(ch, "") on a sequence of characters
RECURSIVE Remove(_, _)
Remove(s, ch) ==
    IF s = <<>> THEN <<>>
    ELSE IF Head(s) = ch THEN Remove(Tail(s), ch)
    ELSE <<Head(s)>> \o Remove(Tail(s), ch)

Whitespace == {" ", "\t", "\n"}

\* Python: s.strip()
RECURSIVE LStrip(_)
LStrip(s) ==
    IF s # <<>> /\ Head(s) \in Whitespace THEN LStrip(Tail(s)) ELSE s

RECURSIVE RStrip(_)
RStrip(s) ==
    IF s # <<>> /\ s[Len(s)] \in Whitespace
    THEN RStrip(SubSeq(s, 1, Len(s) - 1)) ELSE s

Strip(s) == RStrip(LStrip(s))

---------------------------------------------------------------------------
(* JSON objects *)

EmptyDict == <<>>

\* Python: d.get(k, default)
DictGet(d, k, default) == IF k \in DOMAIN d THEN d[k] ELSE default

\* a response body: ok is FALSE when the body is not valid JSON
JsonBody(d) == [ok |-> TRUE, json |-> d]
BadBody == [ok |-> FALSE, json |-> EmptyDict]

---------------------------------------------------------------------------
(* Inputs: command lines, environments and upstream behaviours *)

\* values given to --retries and --timeout (type=int accepts any integer)
RetriesValues == (-1)..MaxRetries
TimeoutValues == (-1)..MaxTimeout

Environments == {<<>>, <<"ops@lab.example">>}

Queries == {<<"histoire numerique">>}
RowsValues == {DEFAULT_ROWS}
DOIs == {<<"10.1038/s41586-024-07031-2">>, <<"10.1000/", "HTTP", " ", "404">>}
\* ISBNs are sequences of characters
ISBNs == {<<"9", "7", "8", "2">>, <<"9", "7", "8", "-", "2">>,
          <<" ", "9", "7", "8", "-", "2", " ">>}

\* an option given (<<v>>) or omitted (<<>>): argparse default=
OptionOr(opt, default) == IF opt = <<>> THEN default ELSE opt[1]
Options(S) == {<<>>} \cup {<<v>> : v \in S}

StatusCodes == {200, 304, 400, 404, 500, 503}

\* the reason phrase the server sends with a status
Reason(status) ==
    CASE status = 200 -> <<"OK">>
      [] status = 304 -> <<"Not Modified">>
      [] status = 400 -> <<"Bad Request">>
      [] status = 404 -> <<"Not Found">>
      [] status = 500 -> <<"Internal Server Error">>
      [] OTHER -> <<"Service Unavailable">>

\* underlying causes of a network fault other than a timeout
Causes == {<<"Connection refused">>}

Work == [title |-> "t"]
Book == [title |-> "b"]

\* bodies the upstream may send to the running request
Bodies ==
    {BadBody} \cup
    CASE args.command = "search" ->
             {JsonBody("message" :> ("items" :> <<Work, Work>>)),
              JsonBody("message" :> ("items" :> <<>>)),
              JsonBody("message" :> EmptyDict),
              JsonBody(EmptyDict)}
      [] args.command = "doi" ->
             {JsonBody("message" :> Work), JsonBody(EmptyDict)}
      [] OTHER ->
             {JsonBody(req.params[1]["bibkeys"] :> Book),
              JsonBody(<<"ISBN:", "0">> :> Book),
              JsonBody(EmptyDict)}

---------------------------------------------------------------------------
(* _request_with_retries, lines 72-110 *)

\* only the server errors raise
RaisesHTTPErrorServerOnly(status) == status >= 500 /\ status < 600

\* Response.raise_for_status(): HTTPError for 4xx and 5xx
RaisesHTTPError(status) == status >= 400 /\ status < 600

\* a linear backoff in place of the exponential one
BackoffLinear(a) == BACKOFF_FACTOR * (a + 1)

\* line 89, 97, 104: BACKOFF_FACTOR * (2 ** attempt)
Backoff(a) == BACKOFF_FACTOR * Pow2(a)

\* an off-by-one in the test for a remaining attempt
AttemptsRemainOffByOne(a, retries) == a < retries

\* lines 88, 103: attempt < retries - 1
AttemptsRemain(a, retries) == a < retries - 1

\* every HTTP error retried while attempts remain, 4xx included
HTTPErrorRetriedAnyStatus(status, a, retries) == a < retries - 1

\* a 5xx retried without looking at the attempts that remain
HTTPErrorRetriedAlways(status, a, retries) == status >= 500

\* line 96: exc.response.status_code >= 500 and attempt < retries - 1
HTTPErrorRetried(status, a, retries) == status >= 500 /\ a < retries - 1

\* line 82: range(retries) still yields a value
InRange(a, retries) == a < retries

\* lines 91-93
TimeoutMessage(timeout, a, retries) ==
    <<"[Error] Request timed out after ", Str(timeout), "s (attempt ",
      Str(a + 1), "/", Str(retries), ") - giving up.">>

\* lines 99-101
HTTPMessage(status, reason, url) ==
    <<"[Error] ", "HTTP", " ", Str(status), " ">> \o reason \o <<" - ">> \o url

\* line 106
NetworkMessage(cause) == <<"[Error] Network error: ">> \o cause

\* line 110
BugMessage == <<"[Bug] Reached end of _request_with_retries without returning.">>

HTTPRequestError(site, status, msg) ==
    [cls |-> "HTTPRequestError", site |-> site, status |-> status, msg |-> msg]

\* the timeout doubled with every attempt
RequestEventGrowingTimeout ==
    [type |-> "request", method |-> req.method, url |-> req.url,
     headers |-> req.headers, params |-> req.params,
     timeout |-> req.timeout * Pow2(attempt)]

\* line 84: requests.request(method, url, headers=, params=, timeout=)
RequestEvent ==
    [type |-> "request", method |-> req.method, url |-> req.url,
     headers |-> req.headers, params |-> req.params, timeout |-> req.timeout]
OutcomeEvent(kind, status) == [type |-> "outcome", kind |-> kind, status |-> status]
SleepEvent(secs) == [type |-> "sleep", secs |-> secs]

\* lines 82-84 and 110: next iteration of the loop issues the request; an
\* exhausted range falls through to the final raise
ForAttempt ==
    /\ pc = "for"
    /\ IF InRange(attempt, req.retries)
       THEN /\ events' = Append(events, RequestEvent)
            /\ pc' = "request"
            /\ exc' = exc
       ELSE /\ exc' = <<HTTPRequestError("bug", 0, BugMessage)>>
            /\ pc' = "raised"
            /\ events' = events
    /\ UNCHANGED <<environ, args, req, attempt, resp, final>>

\* a retry: time.sleep(...) then continue
SleepOrRaise(retry, kind, status, e) ==
    IF retry
    THEN /\ events' = events \o <<OutcomeEvent(kind, status), SleepEvent(Backoff(attempt))>>
         /\ pc' = "sleep"
         /\ exc' = exc
    ELSE /\ events' = Append(events, OutcomeEvent(kind, status))
         /\ pc' = "raised"
         /\ exc' = <<e>>

\* lines 84-86: the response has a status raise_for_status accepts
ReturnResponse ==
    /\ pc = "request"
    /\ \E status \in StatusCodes, body \in Bodies :
          /\ ~RaisesHTTPError(status)
          /\ resp' = <<[status_code |-> status, reason |-> Reason(status), body |-> body]>>
          /\ events' = Append(events, OutcomeEvent("response", status))
    /\ pc' = "returned"
    /\ UNCHANGED <<environ, args, req, attempt, exc, final>>

\* lines 87-93
ExceptTimeout ==
    /\ pc = "request"
    /\ SleepOrRaise(AttemptsRemain(attempt, req.retries), "timeout", 0,
                    HTTPRequestError("timeout", 0,
                        TimeoutMessage(req.timeout, attempt, req.retries)))
    /\ UNCHANGED <<environ, args, req, attempt, resp, final>>

\* lines 94-101
ExceptHTTPError ==
    /\ pc = "request"
    /\ \E status \in StatusCodes :
          /\ RaisesHTTPError(status)
          /\ SleepOrRaise(HTTPErrorRetried(status, attempt, req.retries), "response", status,
                          HTTPRequestError("http", status,
                              HTTPMessage(status, Reason(status), req.url)))
    /\ UNCHANGED <<environ, args, req, attempt, resp, final>>

\* lines 102-106
ExceptRequestException ==
    /\ pc = "request"
    /\ \E cause \in Causes :
          SleepOrRaise(AttemptsRemain(attempt, req.retries), "network", 0,
                       HTTPRequestError("network", 0, NetworkMessage(cause)))
    /\ UNCHANGED <<environ, args, req, attempt, resp, final>>

\* the retry never resumes after the sleep
ContinueStalls ==
    /\ pc = "sleep"
    /\ UNCHANGED vars

\* lines 90, 98, 105: time.sleep returned, continue with the next attempt
Continue ==
    /\ pc = "sleep"
    /\ attempt' = attempt + 1
    /\ pc' = "for"
    /\ UNCHANGED <<environ, args, req, events, resp, exc, final>>

---------------------------------------------------------------------------
(* Process end *)

\* normal return of main after pretty_print(obj): lines 187-188, 234-238
ExitPrinted(obj) ==
    [exit_code |-> 0, stdout |-> <<obj>>, stderr |-> <<>>, cls |-> "", site |-> ""]

\* a SystemExit (or subclass) carrying a message reaches the interpreter:
\* the message goes to stderr and the exit status is 1
ExitRaised(e) ==
    [exit_code |-> 1, stdout |-> <<>>, stderr |-> e.msg, cls |-> e.cls, site |-> e.site]

\* any other exception reaches the interpreter: traceback, exit status 1
ExitUncaught(cls) ==
    [exit_code |-> 1, stdout |-> <<>>, stderr |-> <<"Traceback">>, cls |-> cls,
     site |-> "uncaught"]

SystemExit(site, msg) == [cls |-> "SystemExit", site |-> site, status |-> 0, msg |-> msg]

---------------------------------------------------------------------------
(* crossref_search, lines 117-136 *)

\* line 133: resp.json().get("message", {}).get("items", [])
SearchItems(json) == DictGet(DictGet(json, "message", EmptyDict), "items", <<>>)

\* a test for None in place of the truth test
NoItemsIsNone(items) == FALSE

\* line 134: not items
NoItems(items) == items = <<>>

\* line 135
NoResultsMessage == <<"[Info] No results returned - check your query.">>

\* lines 124-132
crossref_search_call ==
    /\ pc = "dispatch"
    /\ args.command = "search"
    /\ req' = [method |-> "GET",
               url |-> <<CROSSREF_BASE_URL, "/works">>,
               headers |-> HEADERS(environ),
               params |-> <<("query" :> args.query) @@ ("rows" :> <<Str(args.rows)>>)>>,
               timeout |-> args.timeout,
               retries |-> args.retries]
    /\ attempt' = 0
    /\ pc' = "for"
    /\ UNCHANGED <<environ, args, events, resp, exc, final>>

\* lines 133-136, then main line 234
SearchResult ==
    IF exc # <<>> THEN ExitRaised(exc[1])
    ELSE IF ~resp[1].body.ok THEN ExitUncaught("JSONDecodeError")
    ELSE IF NoItems(SearchItems(resp[1].body.json))
         THEN ExitRaised(SystemExit("empty", NoResultsMessage))
    ELSE ExitPrinted(SearchItems(resp[1].body.json))

crossref_search_end ==
    /\ pc \in {"returned", "raised"}
    /\ args.command = "search"
    /\ final' = <<SearchResult>>
    /\ pc' = "exit"
    /\ UNCHANGED <<environ, args, req, attempt, events, resp, exc>>

---------------------------------------------------------------------------
(* crossref_get, lines 139-158 *)

\* line 155: "HTTP 404" in str(exc)
Is404(msg) == Contains(msg, <<"HTTP", " ", "404">>)

\* line 156
NotFoundMessage(doi) == <<"[Error] DOI not found on CrossRef: ">> \o doi

\* lines 146-152
crossref_get_call ==
    /\ pc = "dispatch"
    /\ args.command = "doi"
    /\ req' = [method |-> "GET",
               url |-> <<CROSSREF_BASE_URL, "/works/">> \o args.doi,
               headers |-> HEADERS(environ),
               params |-> <<>>,
               timeout |-> args.timeout,
               retries |-> args.retries]
    /\ attempt' = 0
    /\ pc' = "for"
    /\ UNCHANGED <<environ, args, events, resp, exc, final>>

\* lines 153-158, then main line 236
GetResult ==
    IF exc # <<>>
    THEN IF Is404(exc[1].msg)
         THEN ExitRaised(SystemExit("notfound", NotFoundMessage(args.doi)))
         ELSE ExitRaised(exc[1])
    ELSE IF ~resp[1].body.ok THEN ExitUncaught("JSONDecodeError")
    ELSE IF "message" \notin DOMAIN resp[1].body.json THEN ExitUncaught("KeyError")
    ELSE ExitPrinted(resp[1].body.json["message"])

crossref_get_end ==
    /\ pc \in {"returned", "raised"}
    /\ args.command = "doi"
    /\ final' = <<GetResult>>
    /\ pc' = "exit"
    /\ UNCHANGED <<environ, args, req, attempt, events, resp, exc>>

---------------------------------------------------------------------------
(* openlib_get, lines 164-181 *)

\* the two calls in the other order: strip first, then drop the hyphens
isbn_cleanStripFirst(isbn) == Remove(Strip(isbn), "-")

\* line 170: isbn.replace("-", "").strip()
isbn_clean(isbn) == Strip(Remove(isbn, "-"))

\* lines 171, 181: f"ISBN:{isbn_clean}"
BibKey(isbn) == <<"ISBN:">> \o isbn_clean(isbn)

\* line 175
OpenlibHeaders(env) == ("User-Agent" :> USER_AGENT(env))

\* lines 170-179
openlib_get_call ==
    /\ pc = "dispatch"
    /\ args.command = "isbn"
    /\ req' = [method |-> "GET",
               url |-> <<OPENLIB_BASE_URL>>,
               headers |-> OpenlibHeaders(environ),
               params |-> <<("bibkeys" :> BibKey(args.isbn)) @@ ("format" :> <<"json">>)
                            @@ ("jscmd" :> <<"data">>)>>,
               timeout |-> args.timeout,
               retries |-> args.retries]
    /\ attempt' = 0
    /\ pc' = "for"
    /\ UNCHANGED <<environ, args, events, resp, exc, final>>

\* the whole mapping returned when the key is absent
BookRecordOrData(data, isbn) ==
    IF BibKey(isbn) \in DOMAIN data THEN data[BibKey(isbn)] ELSE data

\* line 181: data.get(f"ISBN:{isbn_clean}", {})
BookRecord(data, isbn) == DictGet(data, BibKey(isbn), EmptyDict)

\* lines 180-181, then main line 238
OpenlibResult ==
    IF exc # <<>> THEN ExitRaised(exc[1])
    ELSE IF ~resp[1].body.ok THEN ExitUncaught("JSONDecodeError")
    ELSE ExitPrinted(BookRecord(resp[1].body.json, args.isbn))

openlib_get_end ==
    /\ pc \in {"returned", "raised"}
    /\ args.command = "isbn"
    /\ final' = <<OpenlibResult>>
    /\ pc' = "exit"
    /\ UNCHANGED <<environ, args, req, attempt, events, resp, exc>>

---------------------------------------------------------------------------
(* CLI, lines 194-240 *)

\* the namespaces parse_args can build: lines 201-224
Namespaces ==
    LET Common == {[timeout |-> OptionOr(t, DEFAULT_TIMEOUT),
                    retries |-> OptionOr(r, DEFAULT_RETRIES)] :
                       t \in Options(TimeoutValues), r \in Options(RetriesValues)}
    IN  {[command |-> "search", query |-> q, rows |-> n,
          timeout |-> c.timeout, retries |-> c.retries] :
             q \in Queries, n \in RowsValues, c \in Common}
        \cup
        {[command |-> "doi", doi |-> d,
          timeout |-> c.timeout, retries |-> c.retries] : d \in DOIs, c \in Common}
        \cup
        {[command |-> "isbn", isbn |-> i,
          timeout |-> c.timeout, retries |-> c.retries] : i \in ISBNs, c \in Common}

\* lines 230-231
main ==
    /\ pc = "main"
    /\ \E ns \in Namespaces : args' = ns
    /\ pc' = "dispatch"
    /\ UNCHANGED <<environ, req, attempt, events, resp, exc, final>>

---------------------------------------------------------------------------
(* The program *)

NoRequest == [method |-> "", url |-> <<>>, headers |-> <<>>, params |-> <<>>,
              timeout |-> 0, retries |-> 0]

Init ==
    /\ pc = "main"
    /\ environ \in Environments
    /\ args = [command |-> ""]
    /\ req = NoRequest
    /\ attempt = 0
    /\ events = <<>>
    /\ resp = <<>>
    /\ exc = <<>>
    /\ final = <<>>

Next ==
    \/ main
    \/ crossref_search_call
    \/ crossref_get_call
    \/ openlib_get_call
    \/ ForAttempt
    \/ ReturnResponse
    \/ ExceptTimeout
    \/ ExceptHTTPError
    \/ ExceptRequestException
    \/ Continue
    \/ crossref_search_end
    \/ crossref_get_end
    \/ openlib_get_end

Spec == Init /\ [][Next]_vars

\* the single thread always takes its next step: a request completes or
\* times out, a sleep ends, straight-line code runs on
FairSpec == Spec /\ WF_vars(Next)

---------------------------------------------------------------------------
(* openlib_get on its own, for every short --isbn string *)

\* longest --isbn string drawn
MaxIsbnLen == 3

IsbnAlphabet == {"9", "X", "-", " "}

IsbnStrings == UNION {[1..n -> IsbnAlphabet] : n \in 0..MaxIsbnLen}

\* main has parsed `isbn --isbn <s>` with the default timeout and retries
NormInit ==
    /\ pc = "dispatch"
    /\ environ = <<>>
    /\ args \in {[command |-> "isbn", isbn |-> s,
                  timeout |-> DEFAULT_TIMEOUT, retries |-> DEFAULT_RETRIES] :
                     s \in IsbnStrings}
    /\ req = NoRequest
    /\ attempt = 0
    /\ events = <<>>
    /\ resp = <<>>
    /\ exc = <<>>
    /\ final = <<>>

\* the call, one answered request, the extraction
NormNext ==
    \/ openlib_get_call
    \/ ForAttempt
    \/ ReturnResponse
    \/ openlib_get_end

NormSpec == NormInit /\ [][NormNext]_vars

---------------------------------------------------------------------------
(* History of the run *)

Requests == SelectSeq(events, LAMBDA e : e.type = "request")
Outcomes == SelectSeq(events, LAMBDA e : e.type = "outcome")
Sleeps == SelectSeq(events, LAMBDA e : e.type = "sleep")

\* a timeout, a status >= 500 or another network fault
Transient(o) ==
    \/ o.kind \in {"timeout", "network"}
    \/ o.kind = "response" /\ o.status >= 500

Success(o) == o.kind = "response" /\ o.status >= 200 /\ o.status < 300

ClientError(o) == o.kind = "response" /\ o.status >= 400 /\ o.status < 500

AllTransient(outs, n) == \A i \in 1..n : Transient(outs[i])

\* every attempt of the budget was made and failed transiently
Exhausted ==
    /\ req.retries >= 1
    /\ Len(Outcomes) = req.retries
    /\ AllTransient(Outcomes, req.retries)

LastEvent == events[Len(events)]

---------------------------------------------------------------------------
(* Claims *)

\* C1: with max_attempts >= 1, after k < max_attempts transient failures (any
\* mix of kinds) followed by a successful attempt, the executor has returned
\* that response, exactly k sleeps have occurred and the i-th (from 0) lasted
\* BACKOFF_FACTOR * 2^i.
C1_RetryThenSuccess ==
    LET outs == Outcomes
        k == Len(outs) - 1
    IN  (/\ req.retries >= 1
         /\ Len(outs) >= 1
         /\ k < req.retries
         /\ AllTransient(outs, k)
         /\ Success(outs[k + 1]))
        => /\ exc = <<>>
           /\ resp # <<>>
           /\ resp[1].status_code = outs[k + 1].status
           /\ Len(Sleeps) = k
           /\ \A i \in 0..(k - 1) : Sleeps[i + 1].secs = BACKOFF_FACTOR * (2 ^ i)

\* three failures of different kinds, sleeps of 1, 2 and 4, then a success
C1_Witness ==
    /\ Len(Outcomes) = 4
    /\ Outcomes[1].kind = "timeout"
    /\ Outcomes[2].kind = "response" /\ Outcomes[2].status = 503
    /\ Outcomes[3].kind = "network"
    /\ Success(Outcomes[4])
    /\ resp # <<>>
    /\ Len(Sleeps) = 3
    /\ Sleeps[3].secs = 4

\* C2: a response with a status in [400, 500) on any attempt makes the
\* executor fail on that attempt with an error naming the status code, the
\* reason phrase and the URL; no sleep and no request follow it.
C2_ClientErrorFailsAtOnce ==
    \A p \in 1..Len(events) :
        (events[p].type = "outcome" /\ ClientError(events[p]))
        => /\ p = Len(events)
           /\ pc \in {"raised", "exit"}
           /\ exc # <<>>
           /\ exc[1].cls = "HTTPRequestError"
           /\ exc[1].site = "http"
           /\ Contains(exc[1].msg, <<"HTTP", " ", Str(events[p].status), " ">>
                                     \o Reason(events[p].status))
           /\ Contains(exc[1].msg, req.url)

\* a 404 on the second attempt of four: two attempts are left unused
C2_Witness ==
    /\ req.retries = 4
    /\ Len(Requests) = 2
    /\ Len(Sleeps) = 1
    /\ LastEvent.type = "outcome"
    /\ ClientError(LastEvent)
    /\ LastEvent.status = 404
    /\ pc = "raised"

\* C3: when all max_attempts attempts have failed transiently, the executor
\* has raised the error of the last failure's kind (timeout: the timed-out
\* error; 5xx: the HTTP error naming status and URL; other fault: the network
\* error wrapping the cause), never the "[Bug]" error.
C3_ExhaustedErrorKind ==
    Exhausted
    => LET last == Outcomes[req.retries]
       IN  /\ exc # <<>>
           /\ exc[1].site # "bug"
           /\ exc[1].msg # BugMessage
           /\ last.kind = "timeout"
              => /\ exc[1].site = "timeout"
                 /\ Contains(exc[1].msg, <<"[Error] Request timed out after ",
                                           Str(req.timeout)>>)
                 /\ Contains(exc[1].msg, <<Str(req.retries), "/", Str(req.retries)>>)
           /\ last.kind = "response"
              => /\ exc[1].site = "http"
                 /\ exc[1].status = last.status
                 /\ Contains(exc[1].msg, <<"HTTP", " ", Str(last.status), " ">>)
                 /\ Contains(exc[1].msg, req.url)
           /\ last.kind = "network"
              => /\ exc[1].site = "network"
                 /\ \E c \in Causes :
                       exc[1].msg = <<"[Error] Network error: ">> \o c

\* a budget of three used up by failures of three kinds, the last a 5xx
C3_Witness ==
    /\ Exhausted
    /\ req.retries = 3
    /\ Outcomes[1].kind = "network"
    /\ Outcomes[2].kind = "timeout"
    /\ Outcomes[3].kind = "response"
    /\ exc # <<>>
    /\ exc[1].site = "http"

\* C4: when all n = max_attempts attempts have failed transiently, exactly
\* n - 1 sleeps were performed, of 1, 2, ..., 2^(n-2), and none follows the
\* final failed attempt: the error is raised at once.
C4_ExhaustedSleeps ==
    Exhausted
    => /\ Len(Sleeps) = req.retries - 1
       /\ \A i \in 1..(req.retries - 1) : Sleeps[i].secs = 2 ^ (i - 1)
       /\ LastEvent.type = "outcome"
       /\ pc \in {"raised", "exit"}

\* three consecutive timeouts with --retries 3: sleeps of 1 s and 2 s only
C4_Witness ==
    /\ req.retries = 3
    /\ Len(Outcomes) = 3
    /\ \A i \in 1..3 : Outcomes[i].kind = "timeout"
    /\ Len(Sleeps) = 2
    /\ Sleeps[1].secs = 1 /\ Sleeps[2].secs = 2
    /\ pc = "exit"
    /\ final[1].site = "timeout"

\* C5: every invocation runs one operation that issues at most max_attempts
\* (the --retries value) requests, one after the other: each request has its
\* outcome before anything else happens, and all go to the one operation's URL.
C5_AtMostMaxAttempts ==
    /\ pc = "exit" => Len(Requests) <= args.retries
    /\ \A p \in 1..Len(events) :
          events[p].type = "request"
          => /\ p < Len(events) => events[p + 1].type = "outcome"
             /\ p = Len(events) => pc = "request"
             /\ events[p].url = req.url

\* C6: in the identifier lookup an error raised by the executor is replaced
\* by the "not found" message citing the identifier exactly when it is the
\* HTTP error for status 404; any other error ends the process unchanged.
C6_RemapIff404 ==
    (pc = "exit" /\ args.command = "doi" /\ exc # <<>>)
    => LET is404 == exc[1].site = "http" /\ exc[1].status = 404
       IN  /\ is404 => /\ final[1].site = "notfound"
                       /\ final[1].stderr =
                              <<"[Error] DOI not found on CrossRef: ">> \o args.doi
           /\ ~is404 => /\ final[1].site = exc[1].site
                        /\ final[1].cls = exc[1].cls
                        /\ final[1].stderr = exc[1].msg

\* C7: in the ISBN lookup, a returned 2xx response whose decoded mapping has
\* no entry for the key "ISBN:{normalized}" ends the process with the empty
\* record printed and exit status 0, without error, sleep or further request;
\* every failure raised by the executor ends it with a message and a
\* non-zero status, so the two cannot be confused.
C7_AbsentIsbnEmptyRecord ==
    (pc = "exit" /\ args.command = "isbn")
    => /\ (/\ resp # <<>>
           /\ resp[1].status_code >= 200 /\ resp[1].status_code < 300
           /\ resp[1].body.ok
           /\ (<<"ISBN:">> \o isbn_clean(args.isbn)) \notin DOMAIN resp[1].body.json)
          => /\ exc = <<>>
             /\ final[1].exit_code = 0
             /\ final[1].stdout = <<EmptyDict>>
             /\ final[1].stderr = <<>>
             /\ LastEvent.type = "outcome"
             /\ Len(Sleeps) = Len(Requests) - 1
       /\ exc # <<>>
          => /\ final[1].exit_code # 0
             /\ final[1].stdout = <<>>
             /\ final[1].stderr = exc[1].msg
             /\ final[1].stderr # <<>>

\* the upstream answers 200 with a mapping that lacks the requested key
C7_Witness ==
    /\ pc = "exit"
    /\ args.command = "isbn"
    /\ args.isbn = <<" ", "9", "7", "8", "-", "2", " ">>
    /\ resp # <<>>
    /\ resp[1].status_code = 200
    /\ resp[1].body = JsonBody(<<"ISBN:", "0">> :> Book)
    /\ final[1].exit_code = 0
    /\ final[1].stdout = <<EmptyDict>>

\* C8: in the search, a returned response whose results list is empty or
\* missing ends the process with the informational "no results" exit, which
\* is none of the executor's errors and follows no retry or sleep of its own;
\* a non-empty list is printed as it is, in order.
C8_SearchEmptyOrList ==
    (pc = "exit" /\ args.command = "search")
    => /\ (resp # <<>> /\ resp[1].body.ok)
          => LET j == resp[1].body.json
                 empty == \/ "message" \notin DOMAIN j
                          \/ "items" \notin DOMAIN j["message"]
                          \/ j["message"]["items"] = <<>>
             IN  /\ empty
                    => /\ final[1].cls = "SystemExit"
                       /\ final[1].site = "empty"
                       /\ final[1].stderr =
                              <<"[Info] No results returned - check your query.">>
                       /\ final[1].stdout = <<>>
                       /\ exc = <<>>
                       /\ LastEvent.type = "outcome"
                       /\ Len(Sleeps) = Len(Requests) - 1
                 /\ ~empty
                    => /\ final[1].exit_code = 0
                       /\ final[1].stdout = <<j["message"]["items"]>>
       /\ exc # <<>>
          => /\ final[1].site \in {"timeout", "http", "network", "bug"}
             /\ final[1].cls = "HTTPRequestError"
             /\ final[1].stderr # <<"[Info] No results returned - check your query.">>

\* a 200 whose envelope holds an empty items list
C8_Witness ==
    /\ pc = "exit"
    /\ args.command = "search"
    /\ resp # <<>>
    /\ resp[1].status_code = 200
    /\ resp[1].body = JsonBody("message" :> ("items" :> <<>>))
    /\ final[1].site = "empty"

\* C9: every request issued carries the identifying User-Agent header and
\* the header Accept: application/json.
C9_HeadersOnEveryRequest ==
    \A p \in 1..Len(events) :
        events[p].type = "request"
        => /\ "User-Agent" \in DOMAIN events[p].headers
           /\ events[p].headers["User-Agent"] =
                  <<"CiteGuard", "/", "0.5", " (mailto:",
                    IF environ = <<>> THEN "anonymous@example.com" ELSE environ[1], ")">>
           /\ "Accept" \in DOMAIN events[p].headers
           /\ events[p].headers["Accept"] = <<"application/json">>

\* C10: the timeout and the retry count of every request descriptor handed
\* to the executor are positive integers.
C10_PositiveDescriptor ==
    pc \notin {"main", "dispatch"}
    => /\ req.timeout \in Nat \ {0}
       /\ req.retries \in Nat \ {0}

\* C11: in no invocation does the executor's loop end without a returned
\* response or one of the four classified errors: the "[Bug] Reached end of
\* _request_with_retries" error is never raised.
C11_BugUnreachable ==
    /\ exc # <<>> => /\ exc[1].site \in {"timeout", "http", "network"}
                     /\ exc[1].msg # BugMessage
    /\ pc = "exit" => final[1].stderr # BugMessage

\* C12: every operation ends either with a decoded structure printed and
\* exit status 0, or with a non-zero exit carrying the message of one of the
\* kinds of the error taxonomy; there is no other way to end.
C12_TwoOutcomes ==
    pc = "exit"
    => \/ /\ final[1].exit_code = 0
          /\ final[1].stdout # <<>>
          /\ final[1].stderr = <<>>
       \/ /\ final[1].exit_code # 0
          /\ final[1].stdout = <<>>
          /\ final[1].cls \in {"HTTPRequestError", "SystemExit"}
          /\ final[1].site \in {"timeout", "http", "network", "notfound", "empty", "bug"}
          /\ final[1].stderr # <<>>

\* s with the character c inserted after its first p characters
InsertAt(s, p, c) == SubSeq(s, 1, p) \o <<c>> \o SubSeq(s, p + 1, Len(s))

\* the strings one step away from s: a hyphen more anywhere, or a whitespace
\* character more at either end
Edits(s) ==
    {InsertAt(s, p, "-") : p \in 0..Len(s)}
    \cup {<<" ">> \o s, s \o <<" ">>, <<"\t">> \o s, s \o <<"\t">>}

Isbn13Hyphenated ==
    <<"9", "7", "8", "-", "2", "-", "0", "7", "-", "0", "3", "6", "8", "2", "2", "-", "8">>
Isbn13Plain ==
    <<"9", "7", "8", "2", "0", "7", "0", "3", "6", "8", "2", "2", "8">>

\* C13: the ISBN normalisation of openlib_get is idempotent (its result has
\* no hyphen and no surrounding whitespace and is its own normal form), gives
\* the same key for inputs that differ by hyphens or surrounding whitespace
\* ("978-2-07-036822-8" and "9782070368228" among them), and the key sent in
\* bibkeys is the key under which the record is taken from the response.
C13_IsbnNormalization ==
    /\ isbn_clean(Isbn13Hyphenated) = Isbn13Plain
    /\ isbn_clean(Isbn13Plain) = Isbn13Plain
    /\ pc \notin {"main", "dispatch"} /\ args.command = "isbn"
       => LET sent == req.params[1]["bibkeys"]
              clean == SubSeq(sent, 2, Len(sent))
          IN  /\ sent[1] = "ISBN:"
              /\ isbn_clean(clean) = clean
              /\ \A i \in 1..Len(clean) : clean[i] # "-"
              /\ clean # <<>> => /\ clean[1] \notin {" ", "\t"}
                                 /\ clean[Len(clean)] \notin {" ", "\t"}
              /\ \A e \in Edits(args.isbn) : <<"ISBN:">> \o isbn_clean(e) = sent
              /\ (pc = "exit" /\ resp # <<>> /\ resp[1].body.ok)
                 => /\ sent \in DOMAIN resp[1].body.json
                       => final[1].stdout = <<resp[1].body.json[sent]>>
                    /\ sent \notin DOMAIN resp[1].body.json
                       => final[1].stdout = <<EmptyDict>>

\* " -9" is sent as ISBN:9 and the record the upstream files under ISBN:9 is
\* the one printed
C13_Witness ==
    /\ pc = "exit"
    /\ args.command = "isbn"
    /\ args.isbn = <<" ", "-", "9">>
    /\ req.params[1]["bibkeys"] = <<"ISBN:", "9">>
    /\ resp # <<>>
    /\ resp[1].body = JsonBody(<<"ISBN:", "9">> :> Book)
    /\ final[1].stdout = <<Book>>

\* C14 as stated: a response is returned exactly when an attempt completes
\* with a 2xx status; an attempt completing with any other status, those below
\* 400 included, never yields a returned response.
C14_ReturnedIff2xx ==
    /\ resp # <<>> => /\ LastEvent.type = "outcome"
                      /\ Success(LastEvent)
    /\ \A p \in 1..Len(events) :
          (events[p].type = "outcome" /\ Success(events[p]))
          => /\ p = Len(events)
             /\ resp # <<>>

\* raise_for_status() lets the status through
Accepted(o) == o.kind = "response" /\ ~(o.status >= 400 /\ o.status < 600)

\* C14, amended: a response is returned exactly when an attempt completes
\* with a status outside 400..599 (a 2xx, but also a 3xx such as 304), and it
\* is returned on that attempt: no sleep and no request follow; an attempt
\* ending in a status in 400..599, a timeout or a network fault never yields
\* a returned response.
C14_ReturnedIffAccepted ==
    /\ resp # <<>> => /\ LastEvent.type = "outcome"
                      /\ Accepted(LastEvent)
                      /\ resp[1].status_code = LastEvent.status
                      /\ exc = <<>>
                      /\ pc \in {"returned", "exit"}
    /\ \A p \in 1..Len(events) :
          events[p].type = "outcome"
          => /\ Accepted(events[p]) => (p = Len(events) /\ resp # <<>>)
             /\ ~Accepted(events[p]) /\ p = Len(events) => resp = <<>>

\* a 304 returned to the adapter on the second attempt
C14_Witness ==
    /\ pc = "returned"
    /\ Len(Requests) = 2
    /\ resp # <<>>
    /\ resp[1].status_code = 304
    /\ LastEvent.type = "outcome"
    /\ LastEvent.status = 304

\* the executor has returned a response or raised an error
ExecutorDone == resp # <<>> \/ exc # <<>>

AtLeastZero(n) == IF n > 0 THEN n ELSE 0

\* C15: when every request completes or times out and every sleep ends, the
\* executor eventually returns a response or raises a terminal error, and on
\* the way never issues more requests than max_attempts nor sleeps more than
\* max_attempts - 1 times.
C15_Terminates ==
    /\ <>ExecutorDone
    /\ [](/\ Len(Requests) <= AtLeastZero(req.retries)
          /\ Len(Sleeps) <= AtLeastZero(req.retries - 1)
          /\ attempt <= AtLeastZero(req.retries - 1))

\* the whole budget of four attempts was needed before the executor ended
C15_Witness ==
    /\ ExecutorDone
    /\ req.retries = 4
    /\ Len(Requests) = 4
    /\ Len(Sleeps) = 3
    /\ attempt = 3

\* C16: the events of the executor alternate request, sleep, request, ...,
\* beginning with a request; every sleep comes right after the transient
\* failure of an attempt that is not the last of the budget, is followed by
\* the next request, and the executor never ends on a sleep.
C16_EventOrder ==
    LET ev == SelectSeq(events, LAMBDA e : e.type # "outcome")
    IN  /\ \A i \in 1..Len(ev) :
              ev[i].type = (IF i % 2 = 1 THEN "request" ELSE "sleep")
        /\ \A p \in 1..Len(events) :
              /\ events[p].type = "request"
                 => (p = 1 \/ events[p - 1].type = "sleep")
              /\ events[p].type = "sleep"
                 => /\ p >= 3
                    /\ events[p - 1].type = "outcome"
                    /\ Transient(events[p - 1])
                    /\ events[p - 2].type = "request"
                    /\ Len(SelectSeq(SubSeq(events, 1, p),
                                     LAMBDA e : e.type = "request")) < req.retries
                    /\ p = Len(events) => pc \in {"sleep", "for"}
        /\ (ExecutorDone /\ req.retries >= 1)
           => /\ events # <<>>
              /\ events[1].type = "request"
              /\ LastEvent.type = "outcome"
        /\ (ExecutorDone /\ req.retries < 1) => events = <<>>

\* request, sleep, request, sleep, request, then the end
C16_Witness ==
    /\ ExecutorDone
    /\ Len(Requests) = 3
    /\ Len(Sleeps) = 2
    /\ events[3].type = "sleep"
    /\ events[4].type = "request"
    /\ events[6].type = "sleep"

\* C17: every attempt of an execution reissues the request of the first one
\* (same method, URL, headers, query parameters and timeout), and neither the
\* descriptor nor max_attempts changes while the executor runs; only the
\* attempt index and the sleep duration differ between attempts.
C17_DescriptorUnchanged ==
    pc \notin {"main", "dispatch"}
    => /\ \A p \in 1..Len(events) :
             events[p].type = "request"
             => /\ events[p] = Requests[1]
                /\ events[p].method = "GET"
                /\ events[p].url = req.url
                /\ events[p].headers = req.headers
                /\ events[p].params = req.params
                /\ events[p].timeout = args.timeout
       /\ req.retries = args.retries
       /\ req.timeout = args.timeout
       /\ \A i \in 1..Len(Sleeps) : Sleeps[i].secs = 2 ^ (i - 1)
       /\ attempt = Len(Sleeps) - (IF pc = "sleep" THEN 1 ELSE 0)

\* a third attempt after two failures
C17_Witness ==
    /\ pc = "request"
    /\ attempt = 2
    /\ Len(Requests) = 3
    /\ Requests[3] = Requests[1]
    /\ Sleeps[1].secs # Sleeps[2].secs

====
